---- MODULE Spec2Model ----
(***************************************************************************)
(* Advanced Prompt Engineering Tool (src/app.py): a Streamlit page whose   *)
(* script is run from top to bottom once per user event.  The model has    *)
(* one action per kind of event (one script run each), the session state   *)
(* and widget state as variables, and the two utility functions of the     *)
(* page, calculate_metrics and apply_prompt_engineering_techniques, as     *)
(* operators over strings.                                                 *)
(***************************************************************************)
EXTENDS Integers, Sequences, FiniteSets, TLC

VARIABLES
    prompt_history,      \* st.session_state.prompt_history (list of records)
    current_prompt,      \* st.session_state.current_prompt
    optimized_prompts,   \* st.session_state.optimized_prompts (provider -> text)
    applied_techniques,  \* st.session_state.applied_techniques (provider -> labels)
    prompt_input,        \* value of the text area "main_prompt_input" in the last run
    widget_default,      \* the value= argument the text area was last built with
    selected_providers,  \* value of the provider multiselect (in selection order)
    checked,             \* ids of the technique checkboxes that are ticked
    selected_techniques, \* the local list selected_techniques at the end of the last run
    selected_template,   \* value of the template selectbox
    custom_values,       \* values of the template_var_ text inputs
    n_optimized,         \* number of Optimize runs that took the optimizing branch
    n_events,            \* number of events of the session so far
    last_event,          \* the event of the last run
    optimize_calls,      \* the arguments of each optimizing Optimize run, in order
    call                 \* a direct call of a utility function: its arguments and result

vars == <<prompt_history, current_prompt, optimized_prompts, applied_techniques,
          prompt_input, widget_default, selected_providers, checked,
          selected_techniques, selected_template, custom_values, n_optimized,
          n_events, last_event, optimize_calls, call>>

session == <<prompt_history, current_prompt, optimized_prompts, applied_techniques,
             prompt_input, widget_default, selected_providers, checked,
             selected_techniques, selected_template, custom_values, n_optimized,
             n_events, last_event, optimize_calls>>

Min(a, b) == IF a < b THEN a ELSE b

Max(a, b) == IF a > b THEN a ELSE b

Abs(a) == IF a < 0 THEN -a ELSE a

\* The character ` and the fence of three of them (a ` inside a string literal
\* has to be followed by a ' in the same literal).
Backtick == SubSeq("`'", 1, 1)

CodeFence == Backtick \o Backtick \o Backtick

\* A Python dict with no keys (and the initial empty list of applied_techniques).
EmptyDict == <<>>

\* d[k] = v on a Python dict.
DictSet(d, k, v) == [x \in (DOMAIN d) \cup {k} |-> IF x = k THEN v ELSE d[x]]

PROMPT_TECHNIQUES ==
  <<
    [category |-> "Claude Best Practices",
     techniques |-> <<
       [id |-> "xml_tags",
        name |-> "XML Tag Structure",
        prefix |-> "<task>\n",
        suffix |-> "\n</task>\n\n<instructions>\nPlease provide a comprehensive response following these guidelines:\n- Be specific and detailed in your answer\n- Use structured formatting where appropriate\n- Include examples when helpful\n</instructions>"],
       [id |-> "thinking_tags",
        name |-> "Chain of Thought with Thinking Tags",
        prefix |-> "<task>\n",
        suffix |-> "\n</task>\n\n<thinking_process>\nBefore answering, please:\n1. Break down the key components of this request\n2. Consider multiple approaches\n3. Identify potential challenges or edge cases\n4. Formulate a comprehensive response\n</thinking_process>\n\nPlease think through this step-by-step and provide your reasoning."],
       [id |-> "role_definition",
        name |-> "Clear Role Definition",
        prefix |-> "You are an expert assistant with deep knowledge across multiple domains. Your role is to provide accurate, helpful, and well-structured responses.\n\n<task>\n",
        suffix |-> "\n</task>\n\nApproach this task with expertise and attention to detail."],
       [id |-> "prefill_technique",
        name |-> "Assistant Prefilling",
        prefix |-> "",
        suffix |-> "\n\nPlease structure your response as follows:\n1. **Overview**: Brief summary of the approach\n2. **Detailed Analysis**: Step-by-step breakdown\n3. **Key Insights**: Important points to consider\n4. **Recommendations**: Actionable next steps\n\nLet me help you with this:"] >>],
    [category |-> "OpenAI Best Practices",
     techniques |-> <<
       [id |-> "system_message",
        name |-> "System Message Optimization",
        prefix |-> "System: You are a helpful, accurate, and creative AI assistant. Follow these principles:\n- Provide detailed, well-structured responses\n- Use examples to illustrate complex points\n- Admit uncertainty when appropriate\n- Focus on being helpful and constructive\n\nUser request:\n",
        suffix |-> ""],
       [id |-> "few_shot",
        name |-> "Few-Shot Examples",
        prefix |-> "Here are examples of the type of response I'm looking for:\n\nExample 1:\nInput: [Similar task]\nOutput: [Detailed, well-structured response]\n\nExample 2:\nInput: [Another similar task]\nOutput: [Another detailed response]\n\nNow, for my actual request:\n",
        suffix |-> "\n\nPlease follow the same detailed, structured approach as shown in the examples."],
       [id |-> "json_mode",
        name |-> "Structured Output Format",
        prefix |-> "",
        suffix |-> "\n\nPlease provide your response in the following structured format:\n" \o CodeFence \o "\n### Main Points\n- Point 1: [Details]\n- Point 2: [Details]\n\n### Analysis\n[Your detailed analysis]\n\n### Conclusion\n[Summary and recommendations]\n" \o CodeFence \o ""],
       [id |-> "temperature_guidance",
        name |-> "Temperature and Parameter Hints",
        prefix |-> "[This task requires balanced creativity and accuracy]\n\n",
        suffix |-> "\n\nNote: Please provide a response that balances factual accuracy with creative insights."] >>],
    [category |-> "Universal Techniques",
     techniques |-> <<
       [id |-> "chain_of_thought",
        name |-> "Chain of Thought (CoT)",
        prefix |-> "",
        suffix |-> "\n\nLet's think through this step-by-step:\n1. First, identify the key components\n2. Then, analyze each part carefully\n3. Finally, synthesize a comprehensive response\n\nPlease show your reasoning process."],
       [id |-> "task_decomposition",
        name |-> "Task Decomposition",
        prefix |-> "This is a complex request that we'll break down into parts:\n\nMain Task: ",
        suffix |-> "\n\nLet's address this by:\nPart A: [First component]\nPart B: [Second component]\nPart C: [Third component]\n\nPlease address each part thoroughly and then provide an integrated conclusion."],
       [id |-> "constraints_and_requirements",
        name |-> "Clear Constraints",
        prefix |-> "",
        suffix |-> "\n\nRequirements:\n- Be comprehensive but concise\n- Use specific examples\n- Cite sources when making claims\n- Structure the response clearly\n- Focus on practical applications\n\nConstraints:\n- Avoid jargon without explanation\n- Keep response focused on the query\n- Ensure accuracy over speculation"],
       [id |-> "self_consistency",
        name |-> "Self-Consistency Check",
        prefix |-> "",
        suffix |-> "\n\nAfter providing your response, please:\n1. Verify the accuracy of any facts or figures\n2. Ensure logical consistency throughout\n3. Check that all parts of the question are addressed\n4. Confirm the response is helpful and actionable"],
       [id |-> "role_play_expert",
        name |-> "Expert Role-Playing",
        prefix |-> "You are a world-class expert in the relevant field for this query. Drawing on your extensive knowledge and experience:\n\n",
        suffix |-> "\n\nPlease provide an expert-level response that demonstrates deep understanding and practical insights."],
       [id |-> "emotional_appeal",
        name |-> "Motivation Enhancement",
        prefix |-> "",
        suffix |-> "\n\nThis is a critical task that requires your best analysis. Please provide a thorough, thoughtful response that addresses all aspects of the query. Your insights will be valuable for important decision-making."] >>],
    [category |-> "Advanced Techniques",
     techniques |-> <<
       [id |-> "tree_of_thoughts",
        name |-> "Tree of Thoughts (ToT)",
        prefix |-> "",
        suffix |-> "\n\nPlease approach this by:\n1. Considering multiple possible solutions or interpretations\n2. Evaluating the pros and cons of each approach\n3. Selecting the most promising path(s)\n4. Providing a detailed exploration of the best option(s)\n\nShow your thought process for each alternative considered."],
       [id |-> "react_pattern",
        name |-> "ReAct (Reasoning + Acting)",
        prefix |-> "",
        suffix |-> "\n\nUse the following approach:\nThought: What do I need to understand first?\nAction: What information or analysis is needed?\nObservation: What insights does this provide?\nThought: Based on this, what's next?\n[Continue until complete]\n\nPlease show this reasoning-action cycle in your response."],
       [id |-> "meta_prompting",
        name |-> "Meta-Prompting",
        prefix |-> "Before answering, let's first ensure we're addressing the right question:\n\nOriginal request: ",
        suffix |-> "\n\nPlease:\n1. Identify any ambiguities or assumptions in the request\n2. Clarify what would make the most helpful response\n3. Then provide a comprehensive answer to the refined question"],
       [id |-> "analogical_reasoning",
        name |-> "Analogical Reasoning",
        prefix |-> "",
        suffix |-> "\n\nIn your response:\n1. Draw analogies to similar, well-understood concepts\n2. Use comparative analysis where helpful\n3. Provide concrete examples and metaphors\n4. Connect abstract ideas to practical applications"] >>]
  >>

MODELS ==
  [Anthropic |-> [best_techniques |-> <<"xml_tags", "thinking_tags", "role_definition",
                                        "prefill_technique", "chain_of_thought">>],
   OpenAI    |-> [best_techniques |-> <<"system_message", "few_shot", "json_mode",
                                        "chain_of_thought", "task_decomposition">>],
   Google    |-> [best_techniques |-> <<"chain_of_thought", "task_decomposition",
                                        "role_play_expert", "constraints_and_requirements">>]]

\* The list used for a provider that is not a key of MODELS.
DefaultRecommended == <<"chain_of_thought", "task_decomposition", "constraints_and_requirements">>

(***************************************************************************)
(* apply_prompt_engineering_techniques                                     *)
(***************************************************************************)

\* The ids that are keys of the category dict at position c.
CategoryIds(c) ==
    {PROMPT_TECHNIQUES[c].techniques[k].id : k \in 1..Len(PROMPT_TECHNIQUES[c].techniques)}

\* All ids of the registry.
KnownIds == UNION {CategoryIds(c) : c \in 1..Len(PROMPT_TECHNIQUES)}

\* The inner loop "for category, techniques in PROMPT_TECHNIQUES.items()": the first
\* category whose dict has technique_id, 0 when the loop ends without a break.
FindCategory(technique_id) ==
    LET hits == {c \in 1..Len(PROMPT_TECHNIQUES) : technique_id \in CategoryIds(c)}
    IN  IF hits = {} THEN 0 ELSE CHOOSE c \in hits : \A d \in hits : c <= d

\* techniques[technique_id] in category c.
TechniqueIn(c, technique_id) ==
    LET ts == PROMPT_TECHNIQUES[c].techniques
    IN  ts[CHOOSE k \in 1..Len(ts) : ts[k].id = technique_id]

\* A rule written as a plain string: the placeholder stays and p is not inserted.
ApplyRuleNotInterpolated(technique, p) == technique.prefix \o "{p}" \o technique.suffix

\* technique["apply"](p): every rule is an f-string with p inserted once.
ApplyRule(technique, p) == technique.prefix \o p \o technique.suffix

\* f"{technique['name']} ({category})"
Label(technique, category) == technique.name \o " (" \o category \o ")"

\* An iteration that records an id it does not find.
ApplyOneRecordingUnknown(technique_id, acc) ==
    LET c == FindCategory(technique_id)
    IN  IF c = 0
        THEN [optimized |-> acc.optimized,
              applied   |-> Append(acc.applied, technique_id)]
        ELSE [optimized |-> ApplyRule(TechniqueIn(c, technique_id), acc.optimized),
              applied   |-> Append(acc.applied,
                                   Label(TechniqueIn(c, technique_id),
                                         PROMPT_TECHNIQUES[c].category))]

\* One iteration of "for technique_id in ...": acc is (optimized, applied).
ApplyOne(technique_id, acc) ==
    LET c == FindCategory(technique_id)
    IN  IF c = 0
        THEN acc
        ELSE [optimized |-> ApplyRule(TechniqueIn(c, technique_id), acc.optimized),
              applied   |-> Append(acc.applied,
                                   Label(TechniqueIn(c, technique_id),
                                         PROMPT_TECHNIQUES[c].category))]

RECURSIVE ApplyAllReversed(_, _)
\* A loop that takes the ids from the end of the list.
ApplyAllReversed(ids, acc) ==
    IF ids = <<>>
    THEN acc
    ELSE ApplyAllReversed(SubSeq(ids, 1, Len(ids) - 1), ApplyOne(ids[Len(ids)], acc))

RECURSIVE ApplyAll(_, _)
\* The loop over a list of ids, from the accumulator acc.
ApplyAll(ids, acc) ==
    IF ids = <<>> THEN acc ELSE ApplyAll(Tail(ids), ApplyOne(Head(ids), acc))

\* The recommended list without the slice.
TopRecommendedUnsliced(recommended) == recommended

\* recommended[:3]
TopRecommended(recommended) == SubSeq(recommended, 1, Min(3, Len(recommended)))

\* The provider's recommended ids.
Recommended(provider) ==
    IF provider \in DOMAIN MODELS
    THEN MODELS[provider].best_techniques
    ELSE DefaultRecommended

apply_prompt_engineering_techniques(prompt, provider, techniques) ==
    LET selected == ApplyAll(techniques, [optimized |-> prompt, applied |-> <<>>])
    IN  IF techniques = <<>> /\ Recommended(provider) # <<>>
        THEN ApplyAll(TopRecommended(Recommended(provider)), selected)
        ELSE selected

(***************************************************************************)
(* calculate_metrics                                                       *)
(***************************************************************************)

\* text[i - 1], the i-th character.
CharAt(text, i) == SubSeq(text, i, i)

\* The characters str.split() splits on.
IsSpace(c) == c \in {" ", "\n", "\t", "\r"}

\* The characters of the class [.!?].
IsTerminator(c) == c \in {".", "!", "?"}

\* len(text.split()): a word starts at each non-space character that follows a
\* space or the start of the text.
WordCount(text) ==
    Cardinality({i \in 1..Len(text) :
                    /\ ~IsSpace(CharAt(text, i))
                    /\ (i = 1 \/ IsSpace(CharAt(text, i - 1)))})

\* sum(len(word) for word in text.split()): the non-space characters.
WordChars(text) == Cardinality({i \in 1..Len(text) : ~IsSpace(CharAt(text, i))})

\* len(re.findall(r'[.!?]+', text)): the maximal runs of terminators.
SentenceCount(text) ==
    Cardinality({i \in 1..Len(text) :
                    /\ IsTerminator(CharAt(text, i))
                    /\ (i = 1 \/ ~IsTerminator(CharAt(text, i - 1)))})

\* round(n / d) for n >= 0, d > 0, ties to the even neighbour as Python's round
\* does on an exact tie (the binary error of the float quotient is not modelled).
RoundDiv(n, d) ==
    LET q == n \div d
        r == n % d
    IN  IF 2 * r > d THEN q + 1
        ELSE IF 2 * r < d THEN q
        ELSE IF q % 2 = 0 THEN q ELSE q + 1

\* The sentence count itself as the divisor.
SentenceDivisorUnguarded(sentence_count) == sentence_count

\* max(word_count, 1) and max(sentence_count, 1), the two divisors.
WordDivisor(word_count) == Max(word_count, 1)

SentenceDivisor(sentence_count) == Max(sentence_count, 1)

\* int(word_count * 1.3): the product is truncated (13 * w / 10 rounded down;
\* the float product truncates to the same integer for every w below 100000).
EstimateTokens(word_count) == (13 * word_count) \div 10

\* The clarity score times w * s, before clamping:
\* 100 - abs(15 - avg_word_length) * 5 - abs(20 - word_count / s) * 2.
ClarityNumerator(word_count, word_chars, w, s) ==
    100 * w * s - 5 * s * Abs(15 * w - word_chars) - 2 * w * Abs(20 * s - word_count)

\* The returned dict.  avg_word_length is in hundredths and clarity_score in
\* tenths (round(x, 2) and round(x, 1) of the source).
calculate_metrics(text) ==
    LET word_count     == WordCount(text)
        sentence_count == SentenceCount(text)
        w == WordDivisor(word_count)
        s == SentenceDivisor(sentence_count)
        clarity == Min(100 * w * s,
                       Max(0, ClarityNumerator(word_count, WordChars(text), w, s)))
    IN  [word_count       |-> word_count,
         char_count       |-> Len(text),
         sentence_count   |-> sentence_count,
         avg_word_length  |-> RoundDiv(100 * WordChars(text), w),
         clarity_score    |-> RoundDiv(10 * clarity, w * s),
         estimated_tokens |-> EstimateTokens(word_count)]

\* max(metrics['sentence_count'], 1), the divisor of the Analysis tab.
AnalysisDivisor(sentence_count) == Max(sentence_count, 1)

\* "Words per Sentence" of the Analysis tab, in tenths.
WordsPerSentence(metrics) ==
    RoundDiv(10 * metrics.word_count, AnalysisDivisor(metrics.sentence_count))

\* The divisors a metrics computation for a text uses, in the order of their use:
\* the two of calculate_metrics, then the one of the Analysis tab, which is drawn
\* under "if prompt_input:".
MetricsDivisors(text) ==
    <<WordDivisor(WordCount(text)), SentenceDivisor(SentenceCount(text))>>
    \o (IF text # "" THEN <<AnalysisDivisor(SentenceCount(text))>> ELSE <<>>)

templates ==
  <<
    [name |-> "Technical Documentation",
     literals |-> <<"<task>\nCreate comprehensive technical documentation for ",
                   "\n</task>\n\n<requirements>\n- Target audience: ",
                   " developers\n- Documentation type: ",
                   "\n- Include: Code examples, API references, troubleshooting guide\n- Style: Clear, concise, technically accurate\n</requirements>\n\n<structure>\n1. Overview and Purpose\n2. Prerequisites and Setup\n3. Core Concepts\n4. Implementation Guide\n5. API Reference\n6. Examples and Use Cases\n7. Troubleshooting\n8. Best Practices\n</structure>\n\nPlease think step-by-step through each section and provide detailed, practical information.">>,
     variables |-> <<"topic", "audience_level", "doc_type">>],
    [name |-> "Data Analysis",
     literals |-> <<"You are an expert data analyst. \n\n<task>\nAnalyze the following data/scenario: ",
                   "\n</task>\n\n<analysis_framework>\n1. Data Overview: Summarize key characteristics\n2. Statistical Analysis: Identify patterns, trends, outliers\n3. Insights: Extract meaningful findings\n4. Visualizations: Suggest appropriate charts/graphs\n5. Recommendations: Provide actionable insights\n</analysis_framework>\n\n<requirements>\n- Use statistical rigor\n- Explain methodology\n- Quantify findings where possible\n- Consider limitations and biases\n- Provide confidence levels for conclusions\n</requirements>\n\nLet's approach this systematically, showing all reasoning.">>,
     variables |-> <<"data_description">>],
    [name |-> "Creative Content",
     literals |-> <<"You are a creative writing expert with deep understanding of narrative techniques.\n\n<task>\nCreate ",
                   " about ",
                   "\n</task>\n\n<parameters>\n- Tone: ",
                   "\n- Style: ",
                   "\n- Length: ",
                   "\n- Target audience: ",
                   "\n</parameters>\n\n<creative_guidelines>\n1. Hook: Start with compelling opening\n2. Development: Build narrative/argument progressively\n3. Engagement: Use vivid language and sensory details\n4. Structure: Maintain clear flow and pacing\n5. Resolution: Provide satisfying conclusion\n</creative_guidelines>\n\nPlease craft something original and engaging, showing your creative process.">>,
     variables |-> <<"content_type", "topic", "tone", "style", "length", "audience">>],
    [name |-> "Problem Solving",
     literals |-> <<"<problem>\n",
                   "\n</problem>\n\n<context>\n",
                   "\n</context>\n\nLet's solve this using a structured approach:\n\n1. **Problem Analysis**: Break down the core components\n2. **Constraints Identification**: List limitations and requirements\n3. **Solution Exploration**: Consider multiple approaches\n4. **Trade-off Analysis**: Evaluate pros/cons of each\n5. **Recommendation**: Select optimal solution with justification\n6. **Implementation Plan**: Provide step-by-step execution guide\n\nPlease think through this methodically, showing your reasoning at each step.">>,
     variables |-> <<"problem_description", "additional_context">>]
  >>

TemplateNames == {templates[k].name : k \in 1..Len(templates)}

\* templates[selected_template]
TemplateData(name) == templates[CHOOSE k \in 1..Len(templates) : templates[k].name = name]

\* re.findall(r'\{(\w+)\}', template_text), as a set.
TemplateVariables(name) ==
    {TemplateData(name).variables[k] : k \in 1..Len(TemplateData(name).variables)}

RECURSIVE FormatFrom(_, _, _)
\* The template from its k-th field on, each field replaced by its value.
FormatFrom(data, values, k) ==
    IF k > Len(data.variables)
    THEN ""
    ELSE values[data.variables[k]] \o data.literals[k + 1] \o FormatFrom(data, values, k + 1)

\* template_text.format(**custom_values) raises KeyError when a field of the
\* template is no key of custom_values.
FormatRaises(data, values) ==
    \E k \in 1..Len(data.variables) : data.variables[k] \notin DOMAIN values

\* template_text.format(**custom_values)
Format(data, values) == data.literals[1] \o FormatFrom(data, values, 1)

(***************************************************************************)
(* Bounds and the values the user enters                                   *)
(***************************************************************************)

\* The longest history of the specification Spec.
MaxHistory == 2

\* The most events of a session of the specification Spec.
MaxEvents == 6

\* The longest history of the specification SpecLong.
MaxLongHistory == 11

\* The longest selected_techniques list of a direct call (SpecCall).
MaxSelection == 3

\* Texts typed into the prompt box.
PromptTexts == {"", "Hi."}

\* Providers the user adds to or removes from the multiselect.
ProviderPool == {"Anthropic", "OpenAI", "Google"}

\* Checkboxes the user ticks and unticks.
CheckboxPool == {"thinking_tags", "chain_of_thought"}

\* Template fields the user types into, and what is typed.
FieldPool == {"problem_description"}

FieldTexts == {"", "AI"}

\* Preset buttons the user clicks.
PresetPool == {"reasoning", "creative", "analysis"}

\* Templates the user selects.
TemplatePool == {"Technical Documentation", "Problem Solving"}

(***************************************************************************)
(* The page: widgets and session state                                     *)
(***************************************************************************)

RECURSIVE IdsFrom(_)
\* The checkbox ids in the order the sidebar loop creates them, from category c on.
IdsFrom(c) ==
    IF c > Len(PROMPT_TECHNIQUES)
    THEN <<>>
    ELSE [k \in 1..Len(PROMPT_TECHNIQUES[c].techniques) |->
              PROMPT_TECHNIQUES[c].techniques[k].id] \o IdsFrom(c + 1)

\* selected_techniques as the checkbox loop builds it from the ticked boxes.
CheckedList(ticked) ==
    LET Ticked(id) == id \in ticked
    IN  SelectSeq(IdsFrom(1), Ticked)

\* The lists the three preset buttons assign.
Presets ==
  [reasoning |-> <<"chain_of_thought", "thinking_tags", "tree_of_thoughts", "self_consistency">>,
   creative  |-> <<"role_play_expert", "analogical_reasoning", "few_shot", "emotional_appeal">>,
   analysis  |-> <<"task_decomposition", "react_pattern", "meta_prompting", "xml_tags">>]

\* A handler without the test of the prompt.
PromptAcceptedAlways(text) == TRUE

\* "if prompt_input:" of the Optimize handler.
PromptAccepted(text) == text # ""

\* A loop body that starts from the text optimized for an earlier provider.
OptimizeStepChained(acc, text, provider, techniques) ==
    LET start == IF acc.optimized_prompts = EmptyDict
                 THEN text
                 ELSE acc.optimized_prompts[CHOOSE p \in DOMAIN acc.optimized_prompts : TRUE]
        r == apply_prompt_engineering_techniques(start, provider, techniques)
    IN  [optimized_prompts       |-> DictSet(acc.optimized_prompts, provider, r.optimized),
         applied_techniques_dict |-> DictSet(acc.applied_techniques_dict, provider, r.applied)]

\* A loop body that works on the text the session already holds for the provider.
OptimizeStepOnStored(acc, text, provider, techniques) ==
    LET base == IF provider \in DOMAIN optimized_prompts
                THEN optimized_prompts[provider] ELSE text
        r    == apply_prompt_engineering_techniques(base, provider, techniques)
    IN  [optimized_prompts       |-> DictSet(acc.optimized_prompts, provider, r.optimized),
         applied_techniques_dict |-> DictSet(acc.applied_techniques_dict, provider, r.applied)]

\* The body of "for provider in selected_providers": acc holds the two local dicts.
OptimizeStep(acc, text, provider, techniques) ==
    LET r == apply_prompt_engineering_techniques(text, provider, techniques)
    IN  [optimized_prompts       |-> DictSet(acc.optimized_prompts, provider, r.optimized),
         applied_techniques_dict |-> DictSet(acc.applied_techniques_dict, provider, r.applied)]

RECURSIVE OptimizeLoop(_, _, _, _)
\* The loop over the providers still to process.
OptimizeLoop(acc, text, providers, techniques) ==
    IF providers = <<>>
    THEN acc
    ELSE OptimizeLoop(OptimizeStep(acc, text, Head(providers), techniques),
                      text, Tail(providers), techniques)

\* The dict appended to the history; timestamp is the order number of the append,
\* standing for datetime.now().
HistoryRecord(timestamp, text, results) ==
    [timestamp  |-> timestamp,
     original   |-> text,
     optimized  |-> results.optimized_prompts,
     techniques |-> results.applied_techniques_dict,
     metrics    |-> calculate_metrics(text)]

\* A history that keeps only the latest record of a prompt.
HistoryAppendLatest(history, record) ==
    LET Other(r) == r.original # record.original
    IN  Append(SelectSeq(history, Other), record)

\* st.session_state.prompt_history.append(record)
HistoryAppend(history, record) == Append(history, record)

\* The number of items the History tab shows.
HistoryWindow == 10

\* prompt_history[-10:]
LastTen(history) ==
    SubSeq(history, Max(1, Len(history) - HistoryWindow + 1), Len(history))

\* The last ten in the order of the list, oldest first.
HistoryListingOldestFirst(history) == LastTen(history)

\* reversed(prompt_history[-10:]): the items of the History tab, top first.
HistoryListing(history) ==
    [k \in 1..Len(LastTen(history)) |-> LastTen(history)[Len(LastTen(history)) + 1 - k]]

\* The Compare tab raises: len(optimized) / len(prompt_input) with an empty prompt
\* box, or cols[i] for more applied_techniques items than columns.
CompareTabRaises(text, optimized, applied) ==
    /\ optimized # EmptyDict
    /\ \/ Len(text) = 0
       \/ Cardinality(DOMAIN applied) > Cardinality(DOMAIN optimized)

\* Whether the text area, built with a new value= argument, shows that value (a
\* build that identifies the widget by its arguments) or keeps its text (a build
\* that identifies it by its key).  Only asked when the argument has changed.
ResetChoices == IF current_prompt # widget_default THEN BOOLEAN ELSE {TRUE}

\* What the text area returns in a run started with `typed` in the box.
PromptInputOf(typed, reset) ==
    IF current_prompt # widget_default /\ reset THEN current_prompt ELSE typed

\* A direct call that has not been made.
NoCall == [fn |-> "none"]

Init ==
    /\ prompt_history = <<>>
    /\ current_prompt = ""
    /\ optimized_prompts = EmptyDict
    /\ applied_techniques = <<>>
    /\ prompt_input = ""
    /\ widget_default = ""
    /\ selected_providers = <<"Anthropic", "OpenAI">>
    /\ checked = {}
    /\ selected_techniques = <<>>
    /\ selected_template = templates[1].name
    /\ custom_values = [v \in TemplateVariables(templates[1].name) |-> ""]
    /\ n_optimized = 0
    /\ n_events = 0
    /\ last_event = "none"
    /\ optimize_calls = <<>>
    /\ call = NoCall

(***************************************************************************)
(* Events: one script run each                                             *)
(***************************************************************************)

\* The user changes the text of the prompt box.
EditPrompt(text) ==
    /\ text # prompt_input
    /\ \E reset \in ResetChoices : prompt_input' = PromptInputOf(text, reset)
    /\ widget_default' = current_prompt
    /\ selected_techniques' = CheckedList(checked)
    /\ UNCHANGED <<prompt_history, current_prompt, optimized_prompts, applied_techniques,
                   selected_providers, checked, selected_template, custom_values,
                   n_optimized, call, optimize_calls>>
    /\ last_event' = "edit_prompt"

\* The user adds a provider to the multiselect, or removes one.
SelectProvider(provider) ==
    LET Other(p) == p # provider
    IN  /\ selected_providers' =
              IF \E k \in 1..Len(selected_providers) : selected_providers[k] = provider
              THEN SelectSeq(selected_providers, Other)
              ELSE Append(selected_providers, provider)
        /\ \E reset \in ResetChoices : prompt_input' = PromptInputOf(prompt_input, reset)
        /\ widget_default' = current_prompt
        /\ selected_techniques' = CheckedList(checked)
        /\ UNCHANGED <<prompt_history, current_prompt, optimized_prompts,
                       applied_techniques, checked, selected_template, custom_values,
                       n_optimized, call, optimize_calls>>
        /\ last_event' = "select_provider"

\* The user ticks or unticks a technique checkbox.
ToggleTechnique(id) ==
    /\ checked' = IF id \in checked THEN checked \ {id} ELSE checked \cup {id}
    /\ \E reset \in ResetChoices : prompt_input' = PromptInputOf(prompt_input, reset)
    /\ widget_default' = current_prompt
    /\ selected_techniques' = CheckedList(checked')
    /\ UNCHANGED <<prompt_history, current_prompt, optimized_prompts, applied_techniques,
                   selected_providers, selected_template, custom_values, n_optimized, call, optimize_calls>>
    /\ last_event' = "toggle_technique"

\* The user clicks one of the three preset buttons: the run assigns the preset
\* list to the local selected_techniques; the Optimize button is not clicked in it.
ClickPreset(preset) ==
    /\ selected_techniques' = Presets[preset]
    /\ \E reset \in ResetChoices : prompt_input' = PromptInputOf(prompt_input, reset)
    /\ widget_default' = current_prompt
    /\ UNCHANGED <<prompt_history, current_prompt, optimized_prompts, applied_techniques,
                   selected_providers, checked, selected_template, custom_values,
                   n_optimized, call, optimize_calls>>
    /\ last_event' = "preset"

\* The user clicks "Optimize Prompt"; the history holds at most limit records.
ClickOptimize(limit) ==
    /\ \E reset \in ResetChoices : prompt_input' = PromptInputOf(prompt_input, reset)
    /\ widget_default' = current_prompt
    /\ selected_techniques' = CheckedList(checked)
    /\ IF PromptAccepted(prompt_input')
       THEN LET results == OptimizeLoop([optimized_prompts |-> EmptyDict,
                                         applied_techniques_dict |-> EmptyDict],
                                        prompt_input', selected_providers,
                                        selected_techniques')
            IN  /\ Len(prompt_history) < limit
                /\ current_prompt' = prompt_input'
                /\ optimized_prompts' = results.optimized_prompts
                /\ applied_techniques' = results.applied_techniques_dict
                /\ prompt_history' =
                       HistoryAppend(prompt_history,
                                     HistoryRecord(Len(prompt_history) + 1,
                                                   prompt_input', results))
                /\ n_optimized' = n_optimized + 1
                /\ optimize_calls' =
                       Append(optimize_calls,
                              [prompt     |-> prompt_input',
                               providers  |-> selected_providers,
                               techniques |-> selected_techniques'])
       ELSE UNCHANGED <<prompt_history, current_prompt, optimized_prompts,
                        applied_techniques, n_optimized, optimize_calls>>
    /\ UNCHANGED <<selected_providers, checked, selected_template, custom_values, call>>
    /\ last_event' = "optimize"

\* The user clicks "Reuse This Prompt" of item i of the History tab (key reuse_i).
\* The button exists when the last run reached the History tab, and its handler is
\* reached when this run does; st.rerun() then runs the script once more.
ClickReuse(i) ==
    /\ i \in 0..(Len(HistoryListing(prompt_history)) - 1)
    /\ ~CompareTabRaises(prompt_input, optimized_prompts, applied_techniques)
    /\ \E reset \in BOOLEAN :
          LET item  == HistoryListing(prompt_history)[i + 1]
              first == PromptInputOf(prompt_input, reset)
          IN  /\ ~CompareTabRaises(first, optimized_prompts, applied_techniques)
              /\ current_prompt' = item.original
              /\ optimized_prompts' = item.optimized
              /\ prompt_input' = IF item.original # current_prompt /\ reset
                                  THEN item.original
                                  ELSE first
              /\ widget_default' = item.original
    /\ selected_techniques' = CheckedList(checked)
    /\ UNCHANGED <<prompt_history, applied_techniques, selected_providers, checked,
                   selected_template, custom_values, n_optimized, call, optimize_calls>>
    /\ last_event' = "reuse"

\* The user picks another template: the text inputs of its variables are shown,
\* a field both templates have keeps its text.
SelectTemplate(name) ==
    /\ name # selected_template
    /\ selected_template' = name
    /\ custom_values' = [v \in TemplateVariables(name) |->
                            IF v \in DOMAIN custom_values THEN custom_values[v] ELSE ""]
    /\ \E reset \in ResetChoices : prompt_input' = PromptInputOf(prompt_input, reset)
    /\ widget_default' = current_prompt
    /\ selected_techniques' = CheckedList(checked)
    /\ UNCHANGED <<prompt_history, current_prompt, optimized_prompts, applied_techniques,
                   selected_providers, checked, n_optimized, call, optimize_calls>>
    /\ last_event' = "select_template"

\* The user types into the text input of a template variable.
EditTemplateVar(var, text) ==
    /\ var \in DOMAIN custom_values
    /\ text # custom_values[var]
    /\ custom_values' = [custom_values EXCEPT ![var] = text]
    /\ \E reset \in ResetChoices : prompt_input' = PromptInputOf(prompt_input, reset)
    /\ widget_default' = current_prompt
    /\ selected_techniques' = CheckedList(checked)
    /\ UNCHANGED <<prompt_history, current_prompt, optimized_prompts, applied_techniques,
                   selected_providers, checked, selected_template, n_optimized, call, optimize_calls>>
    /\ last_event' = "edit_template_var"

\* The user clicks "Generate Customized Prompt".
ClickGenerate ==
    /\ TemplateVariables(selected_template) # {}
    /\ \E reset \in ResetChoices : prompt_input' = PromptInputOf(prompt_input, reset)
    /\ widget_default' = current_prompt
    /\ selected_techniques' = CheckedList(checked)
    /\ current_prompt' =
           IF FormatRaises(TemplateData(selected_template), custom_values)
           THEN current_prompt
           ELSE Format(TemplateData(selected_template), custom_values)
    /\ UNCHANGED <<prompt_history, optimized_prompts, applied_techniques,
                   selected_providers, checked, selected_template, custom_values,
                   n_optimized, call, optimize_calls>>
    /\ last_event' = "generate"

\* One event of a session of at most MaxEvents events.
Counted(event) ==
    /\ n_events < MaxEvents
    /\ event
    /\ n_events' = n_events + 1

Next ==
    \/ Counted(\E text \in PromptTexts : EditPrompt(text))
    \/ Counted(\E provider \in ProviderPool : SelectProvider(provider))
    \/ Counted(\E id \in CheckboxPool : ToggleTechnique(id))
    \/ Counted(\E preset \in PresetPool : ClickPreset(preset))
    \/ Counted(ClickOptimize(MaxHistory))
    \/ Counted(\E i \in 0..(HistoryWindow - 1) : ClickReuse(i))
    \/ Counted(\E name \in TemplatePool : SelectTemplate(name))
    \/ Counted(\E var \in FieldPool, text \in FieldTexts : EditTemplateVar(var, text))
    \/ Counted(ClickGenerate)

Spec == Init /\ [][Next]_vars

(***************************************************************************)
(* Long sessions: many optimizations of the same prompt                    *)
(***************************************************************************)

\* One event of a session whose events are not counted.
Uncounted(event) ==
    /\ event
    /\ UNCHANGED n_events

NextLong ==
    \/ Uncounted(\E text \in PromptTexts : EditPrompt(text))
    \/ Uncounted(\E preset \in PresetPool : ClickPreset(preset))
    \/ Uncounted(ClickOptimize(MaxLongHistory))
    \/ Uncounted(\E i \in 0..(HistoryWindow - 1) : ClickReuse(i))

SpecLong == Init /\ [][NextLong]_vars

(***************************************************************************)
(* Direct calls of apply_prompt_engineering_techniques                     *)
(***************************************************************************)

\* The arguments of the direct calls.
CallPrompts == {"Hi.", "2 + 2?"}

CallProviders == {"Anthropic", "OpenAI", "Google", "Mistral"}

CallIds == {"thinking_tags", "chain_of_thought", "no_such_technique"}

\* The lists of at most n members of S.
SeqsUpTo(S, n) == UNION {[1..k -> S] : k \in 0..n}

InitCall ==
    /\ prompt_history = <<>>
    /\ current_prompt = ""
    /\ optimized_prompts = EmptyDict
    /\ applied_techniques = <<>>
    /\ prompt_input = ""
    /\ widget_default = ""
    /\ selected_providers = <<"Anthropic", "OpenAI">>
    /\ checked = {}
    /\ selected_techniques = <<>>
    /\ selected_template = templates[1].name
    /\ custom_values = [v \in TemplateVariables(templates[1].name) |-> ""]
    /\ n_optimized = 0
    /\ n_events = 0
    /\ last_event = "none"
    /\ optimize_calls = <<>>
    /\ call \in [fn         : {"apply_prompt_engineering_techniques"},
                 prompt     : CallPrompts,
                 provider   : CallProviders,
                 techniques : SeqsUpTo(CallIds, MaxSelection),
                 returned   : {FALSE},
                 result     : {[optimized |-> "", applied |-> <<>>]}]

\* The call runs to its return statement.
CallApply ==
    /\ call.fn = "apply_prompt_engineering_techniques"
    /\ ~call.returned
    /\ call' = [call EXCEPT
                  !.returned = TRUE,
                  !.result = apply_prompt_engineering_techniques(
                                 call.prompt, call.provider, call.techniques)]
    /\ UNCHANGED session

NextCall == CallApply

SpecCall == InitCall /\ [][NextCall]_vars

(***************************************************************************)
(* Direct calls of calculate_metrics                                       *)
(***************************************************************************)

\* The session of a script that has not run a handler.
IdleSession ==
    /\ prompt_history = <<>>
    /\ current_prompt = ""
    /\ optimized_prompts = EmptyDict
    /\ applied_techniques = <<>>
    /\ prompt_input = ""
    /\ widget_default = ""
    /\ selected_providers = <<"Anthropic", "OpenAI">>
    /\ checked = {}
    /\ selected_techniques = <<>>
    /\ selected_template = templates[1].name
    /\ custom_values = [v \in TemplateVariables(templates[1].name) |-> ""]
    /\ n_optimized = 0
    /\ n_events = 0
    /\ last_event = "none"
    /\ optimize_calls = <<>>

\* The texts measured are made of at most MaxPieces of these pieces: a word, a
\* blank, a line break and two sentence terminators.
MaxPieces == 5

MetricPieces == {"Hi", " ", "\n", ".", "?"}

RECURSIVE Concat(_)
\* The pieces of a list joined.
Concat(pieces) ==
    IF pieces = <<>> THEN "" ELSE Head(pieces) \o Concat(Tail(pieces))

MetricTexts == {Concat(pieces) : pieces \in SeqsUpTo(MetricPieces, MaxPieces)}

InitMetrics ==
    /\ IdleSession
    /\ call \in [fn       : {"calculate_metrics"},
                 text     : MetricTexts,
                 returned : {FALSE},
                 divisors : {<<>>},
                 result   : {[raised |-> "nothing yet"]}]

\* calculate_metrics(text) runs to its return statement and the Analysis tab
\* derives its ratio from the dict; a division by 0 raises ZeroDivisionError.
CallMetrics ==
    /\ call.fn = "calculate_metrics"
    /\ ~call.returned
    /\ call' = [call EXCEPT
                  !.returned = TRUE,
                  !.divisors = MetricsDivisors(call.text),
                  !.result =
                      IF \E k \in 1..Len(MetricsDivisors(call.text)) :
                            MetricsDivisors(call.text)[k] = 0
                      THEN [raised |-> "ZeroDivisionError"]
                      ELSE [raised  |-> "",
                            metrics |-> calculate_metrics(call.text),
                            words_per_sentence |->
                                IF call.text # ""
                                THEN WordsPerSentence(calculate_metrics(call.text))
                                ELSE 0]]
    /\ UNCHANGED session

NextMetrics == CallMetrics

SpecMetrics == InitMetrics /\ [][NextMetrics]_vars

(***************************************************************************)
(* Direct calls of the technique rules                                     *)
(***************************************************************************)

\* The texts the rules are applied to, and the longest chain of applications.
RuleTexts == {"", " ", "Hi.", "{p}", "a\nb", "<task>"}

MaxChain == 2

InitRules ==
    /\ IdleSession
    /\ call \in [fn     : {"apply"},
                 text   : RuleTexts,
                 steps  : {0},
                 id     : {"none"},
                 p      : {""},
                 result : RuleTexts]
    /\ call.result = call.text

\* technique["apply"](p) for a registered technique, p being the text the chain
\* has reached.
CallRule(technique_id) ==
    /\ call.fn = "apply"
    /\ call.steps < MaxChain
    /\ call' = [call EXCEPT
                  !.steps = call.steps + 1,
                  !.id = technique_id,
                  !.p = call.result,
                  !.result = ApplyRule(TechniqueIn(FindCategory(technique_id),
                                                   technique_id),
                                       call.result)]
    /\ UNCHANGED session

NextRules == \E technique_id \in KnownIds : CallRule(technique_id)

SpecRules == InitRules /\ [][NextRules]_vars

(***************************************************************************)
(* Properties                                                              *)
(***************************************************************************)

\* C1: an Optimize run whose prompt box is empty appends nothing to
\* prompt_history and leaves prompt_history, optimized_prompts,
\* applied_techniques and current_prompt as they were.
C1_EmptyPromptRefused ==
    [][(last_event' = "optimize" /\ prompt_input' = "")
          => UNCHANGED <<prompt_history, optimized_prompts, applied_techniques,
                         current_prompt>>]_vars

\* An Optimize run with an empty prompt box has just ended in a session that has
\* results and a history to lose.
C1_Witness ==
    /\ last_event = "optimize"
    /\ prompt_input = ""
    /\ prompt_history # <<>>
    /\ optimized_prompts # EmptyDict
    /\ current_prompt # ""

\* C2: an Optimize run with a non-empty prompt and no provider selected is
\* refused: no record is appended and optimized_prompts is not replaced.
C2_EmptyProvidersRefused ==
    [][(last_event' = "optimize" /\ prompt_input' # "" /\ selected_providers = <<>>)
          => UNCHANGED <<prompt_history, optimized_prompts>>]_vars

\* C3 as stated: the History tab lists as many records as there were optimizing
\* Optimize runs.
C3_ListingHoldsAll == Len(HistoryListing(prompt_history)) = n_optimized

\* C3 as amended: after N optimizing Optimize runs the history holds N records,
\* and the History tab lists the most recent min(N, 10) of them, the most recent
\* first.
C3_ListingHoldsLastTen ==
    /\ Len(prompt_history) = n_optimized
    /\ Len(HistoryListing(prompt_history)) = Min(n_optimized, HistoryWindow)
    /\ \A k \in 1..Len(HistoryListing(prompt_history)) :
          /\ HistoryListing(prompt_history)[k] = prompt_history[n_optimized + 1 - k]
          /\ HistoryListing(prompt_history)[k].timestamp = n_optimized + 1 - k

\* More optimizations than the History tab shows have been made.
C3_Witness ==
    /\ n_optimized > HistoryWindow
    /\ Len(prompt_history) = n_optimized
    /\ HistoryListing(prompt_history)[1].timestamp = n_optimized

\* h is a prefix of g.
IsPrefix(h, g) == Len(h) <= Len(g) /\ SubSeq(g, 1, Len(h)) = h

\* C4: every event leaves the history it found as a prefix of the history it
\* leaves, so no record is removed, reordered or changed in any field.
C4_HistoryAppendOnly == [][IsPrefix(prompt_history, prompt_history')]_vars

\* Reuse This Prompt has loaded the older of two records that differ.
C4_Witness ==
    /\ last_event = "reuse"
    /\ Len(prompt_history) = 2
    /\ prompt_history[1].optimized # prompt_history[2].optimized
    /\ optimized_prompts = prompt_history[1].optimized
    /\ current_prompt = prompt_history[1].original

\* The direct call has returned.
Returned == call.fn = "apply_prompt_engineering_techniques" /\ call.returned

\* The rule and the label of a known id, read from the registry.
RuleOf(id, p) == ApplyRule(TechniqueIn(FindCategory(id), id), p)

LabelOf(id) ==
    Label(TechniqueIn(FindCategory(id), id), PROMPT_TECHNIQUES[FindCategory(id)].category)

RECURSIVE Composed(_, _)
\* B(A(p)) for the chain <<A, ..., B>> of known ids: the last rule applied to
\* what the chain before it gives.
Composed(ids, p) ==
    IF ids = <<>>
    THEN p
    ELSE RuleOf(ids[Len(ids)], Composed(SubSeq(ids, 1, Len(ids) - 1), p))

\* The labels of a chain of known ids, in its order.
Labels(ids) == [k \in 1..Len(ids) |-> LabelOf(ids[k])]

\* The known ids of a list, in its order.
KnownOf(ids) ==
    LET Known(id) == id \in KnownIds
    IN  SelectSeq(ids, Known)

\* C5: one call applies no technique more than once: no label appears twice in
\* the returned provenance.
C5_NoTechniqueTwice ==
    Returned =>
        \A i, j \in 1..Len(call.result.applied) :
            call.result.applied[i] = call.result.applied[j] => i = j

\* The position of a label in the order the registry declares the techniques.
RegistryPosition(label) ==
    CHOOSE k \in 1..Len(IdsFrom(1)) : LabelOf(IdsFrom(1)[k]) = label

\* C6: for a non-empty selection the techniques are applied in the order the
\* registry declares them, whatever the order of the selection.
C6_RegistryOrder ==
    (Returned /\ call.techniques # <<>>) =>
        \A i, j \in 1..Len(call.result.applied) :
            i < j => RegistryPosition(call.result.applied[i])
                         <= RegistryPosition(call.result.applied[j])

\* C7: unknown ids of a non-empty selection are skipped: the call returns the
\* known ids' rules composed over the prompt and their labels, nothing else.
C7_UnknownIdsSkipped ==
    (Returned /\ call.techniques # <<>>) =>
        /\ call.result.optimized = Composed(KnownOf(call.techniques), call.prompt)
        /\ call.result.applied = Labels(KnownOf(call.techniques))

\* A selection of a known id between two unknown ones has returned.
C7_Witness ==
    /\ Returned
    /\ call.techniques = <<"no_such_technique", "chain_of_thought", "no_such_technique">>
    /\ Len(call.result.applied) = 1

\* A selection of unknown ids alone has returned the prompt.
C7_WitnessAllUnknown ==
    /\ Returned
    /\ call.techniques = <<"no_such_technique">>
    /\ call.result.optimized = call.prompt

\* C8: with an empty selection the call applies the first three ids of the
\* provider's best_techniques, in that order.
C8_TopThreeRecommended ==
    (Returned /\ call.techniques = <<>> /\ call.provider \in DOMAIN MODELS) =>
        LET best  == MODELS[call.provider].best_techniques
            three == <<best[1], best[2], best[3]>>
        IN  /\ Len(call.result.applied) = 3
            /\ call.result.applied = Labels(three)
            /\ call.result.optimized = Composed(three, call.prompt)

\* A call with an empty selection has returned for Google.
C8_Witness ==
    /\ Returned
    /\ call.techniques = <<>>
    /\ call.provider = "Google"
    /\ call.result.applied = <<"Chain of Thought (CoT) (Universal Techniques)",
                               "Task Decomposition (Universal Techniques)",
                               "Expert Role-Playing (Universal Techniques)">>

\* C9: for a non-empty chain of known ids the returned text is the rules applied
\* one after another from the prompt, and the provenance is the chain's labels
\* in the order of application.
C9_SequentialComposition ==
    (Returned /\ call.techniques # <<>>
        /\ \A k \in 1..Len(call.techniques) : call.techniques[k] \in KnownIds) =>
        /\ call.result.optimized = Composed(call.techniques, call.prompt)
        /\ call.result.applied = Labels(call.techniques)

\* A chain of two different known ids has returned.
C9_Witness ==
    /\ Returned
    /\ call.techniques = <<"chain_of_thought", "thinking_tags">>
    /\ Len(call.result.applied) = 2
    /\ Len(call.result.optimized) > Len(call.prompt)

\* C10: what an Optimize run stores for a provider is what a call for that
\* provider alone returns for the prompt and the selection of the run.
C10_FreshCopyPerProvider ==
    [][(last_event' = "optimize" /\ prompt_input' # "") =>
          /\ DOMAIN optimized_prompts' =
                 {selected_providers[k] : k \in 1..Len(selected_providers)}
          /\ DOMAIN applied_techniques' = DOMAIN optimized_prompts'
          /\ \A p \in DOMAIN optimized_prompts' :
                LET alone == apply_prompt_engineering_techniques(
                                 prompt_input', p, CheckedList(checked))
                IN  /\ optimized_prompts'[p] = alone.optimized
                    /\ applied_techniques'[p] = alone.applied]_vars

\* An Optimize run over three providers, OpenAI first, has just ended.
C10_Witness ==
    /\ last_event = "optimize"
    /\ Len(selected_providers) = 3
    /\ selected_providers[1] = "OpenAI"
    /\ DOMAIN optimized_prompts = {"Anthropic", "OpenAI", "Google"}
    /\ optimized_prompts = prompt_history[Len(prompt_history)].optimized

\* C11: two Optimize runs of a session that had the same prompt text, the same
\* provider list and the same technique selection stored the same provider-to-text
\* map and the same provenance, whatever the session held when each of them ran.
C11_SameInputsSameResults ==
    /\ Len(optimize_calls) = Len(prompt_history)
    /\ \A i, j \in 1..Len(optimize_calls) :
          optimize_calls[i] = optimize_calls[j] =>
             /\ prompt_history[i].optimized = prompt_history[j].optimized
             /\ prompt_history[i].techniques = prompt_history[j].techniques

\* Two Optimize runs with the same arguments and a provider have ended; the second
\* ran on a session that held the results and the history record of the first.
C11_Witness ==
    /\ Len(optimize_calls) = 2
    /\ optimize_calls[1] = optimize_calls[2]
    /\ optimize_calls[1].providers # <<>>
    /\ optimize_calls[1].techniques # <<>>
    /\ optimized_prompts = prompt_history[2].optimized

\* A call of calculate_metrics has returned or raised.
MetricsReturned == call.fn = "calculate_metrics" /\ call.returned

\* C12: the estimated token count calculate_metrics returns is
\* round(word_count * 1.3); a text of 3 words gives 4.
C12_TokensRounded ==
    (MetricsReturned /\ call.result.raised = "") =>
        /\ call.result.metrics.estimated_tokens =
               RoundDiv(13 * call.result.metrics.word_count, 10)
        /\ call.result.metrics.word_count = 3 =>
               call.result.metrics.estimated_tokens = 4

\* C13: for every text, every divisor of a ratio computed from the metrics (the
\* average word length and the words per sentence in calculate_metrics, the words
\* per sentence in the Analysis tab) is at least 1, and no computation raises.
C13_DivisorsAtLeastOne ==
    MetricsReturned =>
        /\ Len(call.divisors) >= 2
        /\ \A k \in 1..Len(call.divisors) : call.divisors[k] >= 1
        /\ call.result.raised = ""

\* The metrics of a non-empty text without a word and without a terminator have
\* been computed and shown by the Analysis tab.
C13_Witness ==
    /\ MetricsReturned
    /\ call.text # ""
    /\ call.result.raised = ""
    /\ call.result.metrics.word_count = 0
    /\ call.result.metrics.sentence_count = 0
    /\ Len(call.divisors) = 3

\* text occurs in whole as one contiguous part of out.
Contains(out, text) ==
    \/ text = ""
    \/ \E i \in 1..(Len(out) - Len(text) + 1) :
          SubSeq(out, i, i + Len(text) - 1) = text

\* C14: every registered rule, on every input, gives a text that contains the input
\* as one contiguous part and is strictly longer than it; so what a chain of rules
\* gives contains the text the chain started from.
C14_RulesKeepTheInput ==
    (call.fn = "apply" /\ call.steps >= 1) =>
        /\ Contains(call.result, call.p)
        /\ Len(call.result) > Len(call.p)
        /\ call.result # ""
        /\ Contains(call.result, call.text)
        /\ Len(call.result) > Len(call.text)

\* A chain of two rules has been applied to a text of three characters.
C14_Witness ==
    /\ call.fn = "apply"
    /\ call.steps = 2
    /\ call.text = "Hi."
    /\ call.p # call.text
    /\ call.id = "json_mode"

\* C15: a Generate run started while a variable field of the template is empty
\* reports the error and generates nothing: current_prompt stays as it was.
C15_EmptyFieldRefused ==
    [][(last_event' = "generate" /\ \E v \in DOMAIN custom_values : custom_values[v] = "")
          => current_prompt' = current_prompt]_vars

\* C16: the Optimize run that follows the click of a preset button, on a prompt
\* that is not empty, uses the preset: for every selected provider the provenance
\* has the label of each technique of the preset, and after the reasoning preset
\* the text has the <task> block and the numbered reasoning list.
C16_PresetReachesOptimize ==
    [][\A preset \in PresetPool :
          (/\ last_event = "preset"
           /\ selected_techniques = Presets[preset]
           /\ last_event' = "optimize"
           /\ prompt_input' # "") =>
             \A p \in DOMAIN optimized_prompts' :
                /\ \A k \in 1..Len(Presets[preset]) :
                      \E j \in 1..Len(applied_techniques'[p]) :
                         applied_techniques'[p][j] = LabelOf(Presets[preset][k])
                /\ preset = "reasoning" =>
                      /\ Contains(optimized_prompts'[p], "<task>\n")
                      /\ Contains(optimized_prompts'[p], "step-by-step:\n1. ")]_vars

\* C17: the providers that are keys of optimized_prompts are the providers that
\* are keys of applied_techniques, in every state of a session.
C17_SameProviderKeys == DOMAIN optimized_prompts = DOMAIN applied_techniques

\* C18: whenever optimized_prompts is not empty the prompt box is not empty, so
\* the Compare tab divides by a positive length.
C18_CompareDivisorPositive == optimized_prompts # EmptyDict => Len(prompt_input) > 0

====
